---- MODULE Spec2Model ----
(***************************************************************************)
(* A model of src/threads.rs: the serde schema types of the thread and     *)
(* message resources and the five Resource Client operations               *)
(* (Thread::create, Thread::from, Thread::update, Thread::delete,          *)
(* Thread::create_message).                                                *)
(*                                                                         *)
(* JSON documents are modelled as tagged trees (JNull, JStr, JNum, JBool,  *)
(* JArr, JObj).  Rust values are modelled as records; encoding and         *)
(* decoding follow what the serde derives of the source do, so that a      *)
(* Rust value and its JSON form are different things.                      *)
(***************************************************************************)
EXTENDS Integers, Sequences, FiniteSets, TLC

VARIABLES
    threads,    \* remote service: thread id -> [metadata, history]
    nextId,     \* remote service: number of ids assigned so far
    pc,         \* position of the caller: "idle", "sent", "received", "done"
    call,       \* the operation being called and its arguments
    req,        \* the HTTP request in flight
    nreq,       \* HTTP requests issued by the current call
    resp,       \* the HTTP response (or transport failure) of the request
    result,     \* the ApiResponseOrError returned to the caller
    cop,        \* schema check: the conversion applied
    cin,        \* schema check: its input
    cout        \* schema check: its output

vars == <<threads, nextId, pc, call, req, nreq, resp, result, cop, cin, cout>>
clientVars == <<threads, nextId, pc, call, req, nreq, resp, result>>
codecVars == <<cop, cin, cout>>

---------------------------------------------------------------------------
(* Bounds of the model *)

MaxThreads == 2
MaxMsgs == 1

---------------------------------------------------------------------------
(* Rust's Option and Result *)

None == [some |-> FALSE]
Some(x) == [some |-> TRUE, val |-> x]

Ok(x) == [ok |-> TRUE, val |-> x]
Err(e) == [ok |-> FALSE, err |-> e]

SchemaError == Err("SchemaError")
ApiError == Err("ApiError")
TransportError == Err("TransportError")

(* JSON documents (serde_json::Value) *)

JNull == [k |-> "null"]
JBool(b) == [k |-> "bool", v |-> b]
JNum(n) == [k |-> "num", v |-> n]
JStr(s) == [k |-> "str", v |-> s]
JArr(s) == [k |-> "arr", v |-> s]
JObj(f) == [k |-> "obj", v |-> f]

IsObj(j) == j.k = "obj"
Has(j, key) == IsObj(j) /\ key \in DOMAIN j.v
Keys(j) == DOMAIN j.v

\* a JSON object without one of its keys
Without(j, key) == JObj([x \in (DOMAIN j.v) \ {key} |-> j.v[x]])
\* a JSON object with one key set
With(j, key, val) == JObj([x \in (DOMAIN j.v) \cup {key} |-> IF x = key THEN val ELSE j.v[x]])

EmptyMap == << >>

---------------------------------------------------------------------------
(* Schema Types: the serde derives of src/threads.rs.                      *)
(* A struct is decoded from a JSON object (the positional array form serde *)
(* also accepts is not among the inputs); unknown keys are ignored; a      *)
(* missing key is an error unless the field is an Option (None) or carries *)
(* #[serde(default)].                                                      *)

\* primitives
SerString(s) == JStr(s)
DeString(j) == IF j.k = "str" THEN Ok(j.v) ELSE SchemaError

\* created, start_index, end_index are u32; every number of the model is far
\* below 2^32, so only the sign is checked
SerU32(n) == JNum(n)
DeU32(j) == IF j.k = "num" /\ j.v >= 0 THEN Ok(j.v) ELSE SchemaError

SerBool(b) == JBool(b)
DeBool(j) == IF j.k = "bool" THEN Ok(j.v) ELSE SchemaError

\* Option<Vec<String>>: None is written as null
SerOptVecString(o) ==
    IF o.some THEN JArr([i \in 1..Len(o.val) |-> JStr(o.val[i])]) ELSE JNull
DeOptVecString(j) ==
    IF j.k = "null" THEN Ok(None)
    ELSE IF j.k = "arr" /\ \A i \in 1..Len(j.v) : j.v[i].k = "str"
         THEN Ok(Some([i \in 1..Len(j.v) |-> j.v[i].v]))
         ELSE SchemaError

\* Map<String, String>
SerMapString(m) == JObj([x \in DOMAIN m |-> JStr(m[x])])
DeMapString(j) ==
    IF IsObj(j) /\ \A x \in DOMAIN j.v : j.v[x].k = "str"
    THEN Ok([x \in DOMAIN j.v |-> j.v[x].v])
    ELSE SchemaError

\* serde_json::Value is the JSON document itself; Option<Value> writes None as null
SerValue(v) == v
DeValue(j) == Ok(j)
SerOptValue(o) == IF o.some THEN SerValue(o.val) ELSE JNull

\* enum Role { Owner, Assistant }: the derive writes a unit variant as its name
Owner == "Role::Owner"
Assistant == "Role::Assistant"
Role == {Owner, Assistant}

as_str(role) == IF role = Owner THEN "owner" ELSE "assistant"

\* mutant: the role written through as_str, while decoding keeps the variant names
SerRole_as_str(role) == JStr(as_str(role))

SerRole(role) == JStr(IF role = Owner THEN "Owner" ELSE "Assistant")
DeRole(j) ==
    IF j.k = "str" /\ j.v = "Owner" THEN Ok(Owner)
    ELSE IF j.k = "str" /\ j.v = "Assistant" THEN Ok(Assistant)
    ELSE SchemaError

\* struct Message { role, content, file_ids, #[serde(default)] metadata }
SerMessage(m) ==
    JObj([role |-> SerRole(m.role),
          content |-> SerString(m.content),
          file_ids |-> SerOptVecString(m.file_ids),
          metadata |-> SerMapString(m.metadata)])
DeMessage(j) ==
    IF ~IsObj(j) \/ ~({"role", "content"} \subseteq Keys(j)) THEN SchemaError
    ELSE LET role == DeRole(j.v["role"])
             content == DeString(j.v["content"])
             file_ids == IF Has(j, "file_ids") THEN DeOptVecString(j.v["file_ids"]) ELSE Ok(None)
             metadata == IF Has(j, "metadata") THEN DeMapString(j.v["metadata"]) ELSE Ok(EmptyMap)
         IN IF role.ok /\ content.ok /\ file_ids.ok /\ metadata.ok
            THEN Ok([role |-> role.val, content |-> content.val,
                     file_ids |-> file_ids.val, metadata |-> metadata.val])
            ELSE SchemaError

\* struct Thread { id, object, created, metadata: Value }
SerThread(t) ==
    JObj([id |-> SerString(t.id),
          object |-> SerString(t.object),
          created |-> SerU32(t.created),
          metadata |-> SerValue(t.metadata)])
DeThread(j) ==
    IF ~IsObj(j) \/ ~({"id", "object", "created", "metadata"} \subseteq Keys(j)) THEN SchemaError
    ELSE LET id == DeString(j.v["id"])
             object == DeString(j.v["object"])
             crtd == DeU32(j.v["created"])
             metadata == DeValue(j.v["metadata"])
         IN IF id.ok /\ object.ok /\ crtd.ok /\ metadata.ok
            THEN Ok([id |-> id.val, object |-> object.val,
                     created |-> crtd.val, metadata |-> metadata.val])
            ELSE SchemaError

\* struct DeletedThread { id, object, deleted }
DeDeletedThread(j) ==
    IF ~IsObj(j) \/ ~({"id", "object", "deleted"} \subseteq Keys(j)) THEN SchemaError
    ELSE LET id == DeString(j.v["id"])
             object == DeString(j.v["object"])
             deleted == DeBool(j.v["deleted"])
         IN IF id.ok /\ object.ok /\ deleted.ok
            THEN Ok([id |-> id.val, object |-> object.val, deleted |-> deleted.val])
            ELSE SchemaError

\* struct FileCitation { file_id, quote }
SerFileCitation(c) == JObj([file_id |-> SerString(c.file_id), quote |-> SerString(c.quote)])
DeFileCitation(j) ==
    IF ~IsObj(j) \/ ~({"file_id", "quote"} \subseteq Keys(j)) THEN SchemaError
    ELSE LET file_id == DeString(j.v["file_id"])
             quote == DeString(j.v["quote"])
         IN IF file_id.ok /\ quote.ok
            THEN Ok([file_id |-> file_id.val, quote |-> quote.val])
            ELSE SchemaError

\* struct FilePath { file_id } and struct ImageFile { file_id }
SerFilePath(p) == JObj([file_id |-> SerString(p.file_id)])
DeFilePath(j) ==
    IF ~IsObj(j) \/ ~Has(j, "file_id") THEN SchemaError
    ELSE LET file_id == DeString(j.v["file_id"])
         IN IF file_id.ok THEN Ok([file_id |-> file_id.val]) ELSE SchemaError
SerImageFile(p) == JObj([file_id |-> SerString(p.file_id)])
DeImageFile(j) ==
    IF ~IsObj(j) \/ ~Has(j, "file_id") THEN SchemaError
    ELSE LET file_id == DeString(j.v["file_id"])
         IN IF file_id.ok THEN Ok([file_id |-> file_id.val]) ELSE SchemaError

\* struct FileCitationAnnotation { text, file_citation, start_index, end_index }
SerFileCitationAnnotation(a) ==
    JObj([text |-> SerString(a.text),
          file_citation |-> SerFileCitation(a.file_citation),
          start_index |-> SerU32(a.start_index),
          end_index |-> SerU32(a.end_index)])
DeFileCitationAnnotation(j) ==
    IF ~IsObj(j) \/ ~({"text", "file_citation", "start_index", "end_index"} \subseteq Keys(j))
    THEN SchemaError
    ELSE LET text == DeString(j.v["text"])
             cit == DeFileCitation(j.v["file_citation"])
             s == DeU32(j.v["start_index"])
             e == DeU32(j.v["end_index"])
         IN IF text.ok /\ cit.ok /\ s.ok /\ e.ok
            THEN Ok([text |-> text.val, file_citation |-> cit.val,
                     start_index |-> s.val, end_index |-> e.val])
            ELSE SchemaError

\* struct FilePathAnnotation { text, file_path, start_index, end_index }
SerFilePathAnnotation(a) ==
    JObj([text |-> SerString(a.text),
          file_path |-> SerFilePath(a.file_path),
          start_index |-> SerU32(a.start_index),
          end_index |-> SerU32(a.end_index)])
DeFilePathAnnotation(j) ==
    IF ~IsObj(j) \/ ~({"text", "file_path", "start_index", "end_index"} \subseteq Keys(j))
    THEN SchemaError
    ELSE LET text == DeString(j.v["text"])
             fp == DeFilePath(j.v["file_path"])
             s == DeU32(j.v["start_index"])
             e == DeU32(j.v["end_index"])
         IN IF text.ok /\ fp.ok /\ s.ok /\ e.ok
            THEN Ok([text |-> text.val, file_path |-> fp.val,
                     start_index |-> s.val, end_index |-> e.val])
            ELSE SchemaError

\* the variants of the two enums, as Rust values
FileCitationV(a) == [variant |-> "Annotation::FileCitation", f0 |-> a]
FilePathV(a) == [variant |-> "Annotation::FilePath", f0 |-> a]
TextV(c) == [variant |-> "Content::Text", f0 |-> c]
ImageFileV(c) == [variant |-> "Content::ImageFile", f0 |-> c]

\* #[serde(tag = "type")] enum Annotation: the variant's struct, with the
\* renamed variant under the key "type"
SerAnnotation(a) ==
    IF a.variant = "Annotation::FileCitation"
    THEN With(SerFileCitationAnnotation(a.f0), "type", JStr("file_citation"))
    ELSE With(SerFilePathAnnotation(a.f0), "type", JStr("file_path"))
DeAnnotation(j) ==
    IF ~IsObj(j) \/ ~Has(j, "type") THEN SchemaError
    ELSE IF j.v["type"].k # "str" THEN SchemaError
    ELSE IF j.v["type"].v = "file_citation"
         THEN LET a == DeFileCitationAnnotation(Without(j, "type"))
              IN IF a.ok THEN Ok(FileCitationV(a.val)) ELSE SchemaError
    ELSE IF j.v["type"].v = "file_path"
         THEN LET a == DeFilePathAnnotation(Without(j, "type"))
              IN IF a.ok THEN Ok(FilePathV(a.val)) ELSE SchemaError
    ELSE SchemaError

\* struct Text { value, annotations: Vec<Annotation> }
SerText(t) ==
    JObj([value |-> SerString(t.value),
          annotations |-> JArr([i \in 1..Len(t.annotations) |-> SerAnnotation(t.annotations[i])])])
DeText(j) ==
    IF ~IsObj(j) \/ ~({"value", "annotations"} \subseteq Keys(j)) THEN SchemaError
    ELSE LET value == DeString(j.v["value"])
             arr == j.v["annotations"]
         IN IF value.ok /\ arr.k = "arr" /\ \A i \in 1..Len(arr.v) : DeAnnotation(arr.v[i]).ok
            THEN Ok([value |-> value.val,
                     annotations |-> [i \in 1..Len(arr.v) |-> DeAnnotation(arr.v[i]).val]])
            ELSE SchemaError

\* struct TextContent { text } and struct ImageFileContent { image_file }
SerTextContent(c) == JObj([text |-> SerText(c.text)])
DeTextContent(j) ==
    IF ~IsObj(j) \/ ~Has(j, "text") THEN SchemaError
    ELSE LET text == DeText(j.v["text"])
         IN IF text.ok THEN Ok([text |-> text.val]) ELSE SchemaError
SerImageFileContent(c) == JObj([image_file |-> SerImageFile(c.image_file)])
DeImageFileContent(j) ==
    IF ~IsObj(j) \/ ~Has(j, "image_file") THEN SchemaError
    ELSE LET f == DeImageFile(j.v["image_file"])
         IN IF f.ok THEN Ok([image_file |-> f.val]) ELSE SchemaError

\* #[serde(tag = "type")] enum Content
SerContent(c) ==
    IF c.variant = "Content::Text"
    THEN With(SerTextContent(c.f0), "type", JStr("text"))
    ELSE With(SerImageFileContent(c.f0), "type", JStr("image_file"))
\* mutant: an unrecognized discriminator falls back to the text variant
DeContent_default_text(j) ==
    IF ~IsObj(j) \/ ~Has(j, "type") THEN SchemaError
    ELSE IF j.v["type"].k # "str" THEN SchemaError
    ELSE IF j.v["type"].v = "image_file"
         THEN LET c == DeImageFileContent(Without(j, "type"))
              IN IF c.ok THEN Ok(ImageFileV(c.val)) ELSE SchemaError
    ELSE LET c == DeTextContent(Without(j, "type"))
         IN IF c.ok THEN Ok(TextV(c.val)) ELSE SchemaError

DeContent(j) ==
    IF ~IsObj(j) \/ ~Has(j, "type") THEN SchemaError
    ELSE IF j.v["type"].k # "str" THEN SchemaError
    ELSE IF j.v["type"].v = "text"
         THEN LET c == DeTextContent(Without(j, "type"))
              IN IF c.ok THEN Ok(TextV(c.val)) ELSE SchemaError
    ELSE IF j.v["type"].v = "image_file"
         THEN LET c == DeImageFileContent(Without(j, "type"))
              IN IF c.ok THEN Ok(ImageFileV(c.val)) ELSE SchemaError
    ELSE SchemaError

\* struct IncompleteDetails { reason }, held as an Option with #[serde(default)]
SerOptIncompleteDetails(o) ==
    IF o.some THEN JObj([reason |-> SerString(o.val.reason)]) ELSE JNull
DeOptIncompleteDetails(j) ==
    IF j.k = "null" THEN Ok(None)
    ELSE IF ~IsObj(j) \/ ~Has(j, "reason") THEN SchemaError
    ELSE LET reason == DeString(j.v["reason"])
         IN IF reason.ok THEN Ok(Some([reason |-> reason.val])) ELSE SchemaError

\* struct MessageObject
SerMessageObject(m) ==
    JObj([id |-> SerString(m.id),
          object |-> SerString(m.object),
          created |-> SerU32(m.created),
          thread_id |-> SerString(m.thread_id),
          status |-> SerString(m.status),
          incomplete_details |-> SerOptIncompleteDetails(m.incomplete_details),
          role |-> SerRole(m.role),
          content |-> SerContent(m.content),
          file_ids |-> SerOptVecString(m.file_ids),
          metadata |-> SerMapString(m.metadata)])
DeMessageObject(j) ==
    IF ~IsObj(j)
       \/ ~({"id", "object", "created", "thread_id", "status", "role", "content"} \subseteq Keys(j))
    THEN SchemaError
    ELSE LET id == DeString(j.v["id"])
             object == DeString(j.v["object"])
             crtd == DeU32(j.v["created"])
             thread_id == DeString(j.v["thread_id"])
             status == DeString(j.v["status"])
             incomplete == IF Has(j, "incomplete_details")
                           THEN DeOptIncompleteDetails(j.v["incomplete_details"]) ELSE Ok(None)
             role == DeRole(j.v["role"])
             content == DeContent(j.v["content"])
             file_ids == IF Has(j, "file_ids") THEN DeOptVecString(j.v["file_ids"]) ELSE Ok(None)
             metadata == IF Has(j, "metadata") THEN DeMapString(j.v["metadata"]) ELSE Ok(EmptyMap)
         IN IF id.ok /\ object.ok /\ crtd.ok /\ thread_id.ok /\ status.ok /\ incomplete.ok
               /\ role.ok /\ content.ok /\ file_ids.ok /\ metadata.ok
            THEN Ok([id |-> id.val, object |-> object.val, created |-> crtd.val,
                     thread_id |-> thread_id.val, status |-> status.val,
                     incomplete_details |-> incomplete.val, role |-> role.val,
                     content |-> content.val, file_ids |-> file_ids.val,
                     metadata |-> metadata.val])
            ELSE SchemaError

---------------------------------------------------------------------------
(* Resource Client: the request each operation hands to the HTTP helper    *)
(* (openai_post, openai_get, openai_delete).  json!({...}) writes every    *)
(* listed key, with the serialized value of its expression.                *)

NoBody == None

create_request(messages, metadata) ==
    [method |-> "POST",
     path |-> "threads",
     body |-> Some(JObj([messages |-> JArr([i \in 1..Len(messages) |-> SerMessage(messages[i])]),
                         metadata |-> SerMapString(metadata)]))]

\* mutant: the braces escaped, so that the id is never put into the path
from_request_literal(id) ==
    [method |-> "GET", path |-> "threads/{id}", body |-> NoBody]

from_request(id) ==
    [method |-> "GET", path |-> "threads/" \o id, body |-> NoBody]

\* mutant: update also sends a (here empty) messages list
update_request_with_messages(id, metadata) ==
    [method |-> "POST",
     path |-> "threads/" \o id,
     body |-> Some(JObj([messages |-> JArr(<< >>), metadata |-> SerMapString(metadata)]))]

update_request(id, metadata) ==
    [method |-> "POST",
     path |-> "threads/" \o id,
     body |-> Some(JObj([metadata |-> SerMapString(metadata)]))]

\* mutant: delete sent through the POST helper
delete_request_post(id) ==
    [method |-> "POST", path |-> "threads/" \o id, body |-> NoBody]

delete_request(id) ==
    [method |-> "DELETE", path |-> "threads/" \o id, body |-> NoBody]

\* mutant: the file_ids key left out when file_ids is None
create_message_request_skip_none(id, role, content, file_ids, metadata) ==
    [method |-> "POST",
     path |-> "threads/" \o id \o "/messages",
     body |-> Some(IF file_ids.some
                   THEN JObj([role |-> SerString(as_str(role)),
                              content |-> SerString(content),
                              file_ids |-> SerOptVecString(file_ids),
                              metadata |-> SerOptValue(metadata)])
                   ELSE JObj([role |-> SerString(as_str(role)),
                              content |-> SerString(content),
                              metadata |-> SerOptValue(metadata)]))]

create_message_request(id, role, content, file_ids, metadata) ==
    [method |-> "POST",
     path |-> "threads/" \o id \o "/messages",
     body |-> Some(JObj([role |-> SerString(as_str(role)),
                         content |-> SerString(content),
                         file_ids |-> SerOptVecString(file_ids),
                         metadata |-> SerOptValue(metadata)]))]

\* the type each operation asks the helper to decode the response body into
DecodeResponse(op, j) ==
    IF op \in {"create", "from", "update"} THEN DeThread(j)
    ELSE IF op = "delete" THEN DeDeletedThread(j)
    ELSE DeMessageObject(j)

---------------------------------------------------------------------------
(* Arguments the caller draws from *)

Id(n) == "thread_" \o ToString(n)
ServerIds == {Id(n) : n \in 1..MaxThreads}
CallIds == ServerIds \cup {"nope"}

SeqsUpTo(S, n) == UNION {[1..m -> S] : m \in 0..n}

FileIdsArgs == {None, Some(<<"file-1">>)}
MetadataArgs == {EmptyMap, [topic |-> "demo"]}
OptValueArgs == {None, Some(JObj([topic |-> JStr("demo")]))}
MessageArgs ==
    {[role |-> r, content |-> "hi", file_ids |-> f, metadata |-> EmptyMap] :
        r \in Role, f \in FileIdsArgs}

---------------------------------------------------------------------------
(* The remote service and the HTTP exchange *)

NoReq == [method |-> "none"]
NoResp == [kind |-> "none"]
NoCall == [op |-> "none"]
NoResult == [ok |-> FALSE, err |-> "none"]

HttpResp(status, body) == [kind |-> "http", status |-> status, body |-> body]
TransportFailure == [kind |-> "transport"]

Alive == {id \in DOMAIN threads : ~threads[id].deleted}

ThreadJson(id, t) ==
    JObj([id |-> JStr(id), object |-> JStr("thread"),
          created |-> JNum(t.created), metadata |-> t.metadata])

ErrorJson(code) == JObj([error |-> JObj([code |-> JStr(code)])])

\* what the service keeps of a submitted message: its content
Kept(m) == m.v["content"].v

\* what the service keeps of a deleted thread: that its id is used up
Tombstone(t) == [created |-> t.created, metadata |-> JNull, history |-> << >>, deleted |-> TRUE]

OrElse(j, key, dflt) == IF Has(j, key) /\ j.v[key].k # "null" THEN j.v[key] ELSE dflt

MessageJson(id, n, b) ==
    JObj([id |-> JStr("msg_" \o ToString(n)),
          object |-> JStr("thread.message"),
          created |-> JNum(n),
          thread_id |-> JStr(id),
          status |-> JStr("completed"),
          role |-> b.v["role"],
          content |-> JObj([type |-> JStr("text"),
                            text |-> JObj([value |-> b.v["content"],
                                           annotations |-> JArr(<< >>)])]),
          file_ids |-> OrElse(b, "file_ids", JArr(<< >>)),
          metadata |-> OrElse(b, "metadata", JObj(EmptyMap))])

\* the service's handling of a request: <<new threads, new nextId, response>>
Handle(r) ==
    IF r.method = "POST" /\ r.path = "threads"
    THEN LET id == Id(nextId + 1)
             b == r.body.val
             t == [created |-> nextId + 1,
                   metadata |-> OrElse(b, "metadata", JObj(EmptyMap)),
                   history |-> [i \in 1..Len(b.v["messages"].v) |-> Kept(b.v["messages"].v[i])],
                   deleted |-> FALSE]
         IN <<[x \in DOMAIN threads \cup {id} |-> IF x = id THEN t ELSE threads[x]],
              nextId + 1, HttpResp(200, ThreadJson(id, t))>>
    ELSE IF \E id \in Alive : r.path = "threads/" \o id
    THEN LET id == CHOOSE x \in Alive : r.path = "threads/" \o x
         IN IF r.method = "GET"
            THEN <<threads, nextId, HttpResp(200, ThreadJson(id, threads[id]))>>
            ELSE IF r.method = "DELETE"
            THEN <<[threads EXCEPT ![id] = Tombstone(@)], nextId,
                   HttpResp(200, JObj([id |-> JStr(id), object |-> JStr("thread.deleted"),
                                       deleted |-> JBool(TRUE)]))>>
            ELSE LET b == r.body.val
                     t == [threads[id] EXCEPT
                             !.metadata = OrElse(b, "metadata", @),
                             !.history = IF Has(b, "messages")
                                         THEN [i \in 1..Len(b.v["messages"].v) |->
                                                  Kept(b.v["messages"].v[i])]
                                         ELSE @]
                 IN <<[threads EXCEPT ![id] = t], nextId, HttpResp(200, ThreadJson(id, t))>>
    ELSE IF \E id \in Alive : r.path = "threads/" \o id \o "/messages"
    THEN LET id == CHOOSE x \in Alive : r.path = "threads/" \o x \o "/messages"
             b == r.body.val
         IN IF r.method = "POST"
            THEN <<[threads EXCEPT ![id].history = Append(@, Kept(b))], nextId,
                   HttpResp(200, MessageJson(id, Len(threads[id].history) + 1, b))>>
            ELSE <<threads, nextId, HttpResp(405, ErrorJson("method_not_allowed"))>>
    ELSE <<threads, nextId, HttpResp(404, ErrorJson("not_found"))>>

---------------------------------------------------------------------------
(* Actions of the caller: each operation builds its request and hands it   *)
(* to the helper, which sends it                                           *)

Issue(c, r) ==
    /\ pc' = "sent"
    /\ call' = c
    /\ req' = r
    /\ nreq' = 1
    /\ resp' = NoResp
    /\ result' = NoResult
    /\ UNCHANGED <<threads, nextId, cop, cin, cout>>

create ==
    \E messages \in SeqsUpTo(MessageArgs, MaxMsgs), metadata \in MetadataArgs :
        /\ pc = "idle"
        /\ nextId < MaxThreads
        /\ Issue([op |-> "create", messages |-> messages, metadata |-> metadata],
                 create_request(messages, metadata))

from ==
    \/ \E id \in CallIds :
        /\ pc = "idle"
        /\ Issue([op |-> "from", id |-> id, of_create |-> FALSE], from_request(id))
    \* the caller fetches the thread that create has just returned
    \/ /\ pc = "done"
       /\ call.op = "create"
       /\ result.ok
       /\ Issue([op |-> "from", id |-> result.val.id, of_create |-> TRUE,
                 created_with |-> [messages |-> call.messages, metadata |-> call.metadata]],
                from_request(result.val.id))

update ==
    \E id \in CallIds, metadata \in MetadataArgs :
        /\ pc = "idle"
        /\ Issue([op |-> "update", id |-> id, metadata |-> metadata],
                 update_request(id, metadata))

delete ==
    \E id \in CallIds :
        /\ pc = "idle"
        /\ Issue([op |-> "delete", id |-> id], delete_request(id))

create_message ==
    \E id \in CallIds, role \in Role, file_ids \in FileIdsArgs, metadata \in OptValueArgs :
        /\ pc = "idle"
        /\ id \in Alive => Len(threads[id].history) < MaxMsgs
        /\ Issue([op |-> "create_message", id |-> id, role |-> role, content |-> "hello",
                  file_ids |-> file_ids, metadata |-> metadata],
                 create_message_request(id, role, "hello", file_ids, metadata))

\* the service answers; the answer may be lost on the way back
ServiceRespond ==
    /\ pc = "sent"
    /\ \E lost \in BOOLEAN :
        LET h == Handle(req)
        IN /\ threads' = h[1]
           /\ nextId' = h[2]
           /\ resp' = IF lost THEN TransportFailure ELSE h[3]
    /\ pc' = "received"
    /\ UNCHANGED <<call, req, nreq, result, cop, cin, cout>>

\* the request never reaches the service
TransportFail ==
    /\ pc = "sent"
    /\ resp' = TransportFailure
    /\ pc' = "received"
    /\ UNCHANGED <<threads, nextId, call, req, nreq, result, cop, cin, cout>>

\* the helper's outcome for a response
Outcome(op, r) ==
    IF r.kind = "transport" THEN TransportError
    ELSE IF r.status # 200 THEN ApiError
    ELSE DecodeResponse(op, r.body)

\* mutant: an operation that sends its request again when the helper fails
Return_retry ==
    /\ pc = "received"
    /\ IF Outcome(call.op, resp).ok
       THEN /\ result' = Outcome(call.op, resp)
            /\ pc' = "done"
            /\ req' = NoReq
            /\ UNCHANGED <<nreq, resp>>
       ELSE /\ pc' = "sent"
            /\ nreq' = nreq + 1
            /\ resp' = NoResp
            /\ UNCHANGED <<req, result>>
    /\ UNCHANGED <<threads, nextId, call, cop, cin, cout>>

\* the helper returns its outcome, and the operation returns it unchanged
Return ==
    /\ pc = "received"
    /\ result' = Outcome(call.op, resp)
    /\ pc' = "done"
    /\ req' = NoReq
    /\ UNCHANGED <<threads, nextId, call, nreq, resp, cop, cin, cout>>

\* the caller takes the returned value and is free to call again
Resume ==
    /\ pc = "done"
    /\ pc' = "idle"
    /\ call' = NoCall
    /\ resp' = NoResp
    /\ result' = NoResult
    /\ UNCHANGED <<threads, nextId, req, nreq, cop, cin, cout>>

Init ==
    /\ threads = << >>
    /\ nextId = 0
    /\ pc = "idle"
    /\ call = NoCall
    /\ req = NoReq
    /\ nreq = 0
    /\ resp = NoResp
    /\ result = NoResult
    /\ cop = "none"
    /\ cin = JNull
    /\ cout = JNull

Next ==
    \/ create
    \/ from
    \/ update
    \/ delete
    \/ create_message
    \/ ServiceRespond
    \/ TransportFail
    \/ Return
    \/ Resume

Spec == Init /\ [][Next]_vars

---------------------------------------------------------------------------
(* Schema check: a conversion of the schema applied to one input.  The     *)
(* Rust values and JSON documents the inputs are drawn from:               *)

MaxAnnotations == 1

RoleStrings == {"owner", "assistant", "Owner", "Assistant", "user", ""}

AnnotationValues ==
    {FileCitationV([text |-> "[1]", file_citation |-> [file_id |-> "file-1", quote |-> "q"],
                    start_index |-> 0, end_index |-> 3]),
     FilePathV([text |-> "[2]", file_path |-> [file_id |-> "file-2"],
                start_index |-> 4, end_index |-> 7])}

ContentValues ==
    {TextV([text |-> [value |-> "hello", annotations |-> a]]) :
        a \in SeqsUpTo(AnnotationValues, MaxAnnotations)}
    \cup {ImageFileV([image_file |-> [file_id |-> "file-3"]])}

FileIdsValues == {None, Some(<< >>), Some(<<"file-1">>)}

MessageValues ==
    {[role |-> r, content |-> c, file_ids |-> f, metadata |-> m] :
        r \in Role, c \in {"hi", ""}, f \in FileIdsValues, m \in MetadataArgs}

ThreadValues ==
    {[id |-> "thread_1", object |-> "thread", created |-> c, metadata |-> m] :
        c \in {0, 1700000000},
        m \in {JNull, JObj(EmptyMap), JObj([topic |-> JStr("demo")]), JObj([n |-> JNum(1)])}}

MessageObjectValues ==
    {[id |-> "msg_1", object |-> "thread.message", created |-> 1700000000,
      thread_id |-> "thread_1", status |-> st, incomplete_details |-> d,
      role |-> r, content |-> c, file_ids |-> f, metadata |-> m] :
        st \in {"completed"},
        d \in {None, Some([reason |-> "max_tokens"])},
        r \in Role, c \in ContentValues, f \in FileIdsValues, m \in MetadataArgs}

\* the discriminator of a payload: a string, a non-string, or no "type" key
TypeTags == {"text", "image_file", "file_citation", "file_path", "audio", ""}
Retagged(j) ==
    {[json |-> With(j, "type", JStr(t)), tag |-> Some(t)] : t \in TypeTags}
    \cup {[json |-> With(j, "type", JNull), tag |-> None],
          [json |-> Without(j, "type"), tag |-> None]}

\* a JSON object with some of its keys left out
Omit(j, ks) == JObj([x \in (DOMAIN j.v) \ ks |-> j.v[x]])

Converted(in, out) ==
    /\ cin' = in
    /\ cout' = out
    /\ UNCHANGED clientVars

roundtrip_Message ==
    \E m \in MessageValues :
        /\ cop = "none"
        /\ cop' = "roundtrip_Message"
        /\ Converted(m, DeMessage(SerMessage(m)))

roundtrip_MessageObject ==
    \E m \in MessageObjectValues :
        /\ cop = "none"
        /\ cop' = "roundtrip_MessageObject"
        /\ Converted(m, DeMessageObject(SerMessageObject(m)))

roundtrip_Thread ==
    \E t \in ThreadValues :
        /\ cop = "none"
        /\ cop' = "roundtrip_Thread"
        /\ Converted(t, DeThread(SerThread(t)))

roundtrip_Content ==
    \E c \in ContentValues :
        /\ cop = "none"
        /\ cop' = "roundtrip_Content"
        /\ Converted(c, DeContent(SerContent(c)))

roundtrip_Annotation ==
    \E a \in AnnotationValues :
        /\ cop = "none"
        /\ cop' = "roundtrip_Annotation"
        /\ Converted(a, DeAnnotation(SerAnnotation(a)))

encode_Role ==
    \E r \in Role :
        /\ cop = "none"
        /\ cop' = "encode_Role"
        /\ Converted(r, SerRole(r))

decode_Role ==
    \E x \in RoleStrings :
        /\ cop = "none"
        /\ cop' = "decode_Role"
        /\ Converted(JStr(x), DeRole(JStr(x)))

\* a Content payload: an encoded Content whose discriminator is replaced
decode_Content ==
    \E c \in ContentValues : \E p \in Retagged(SerContent(c)) :
        /\ cop = "none"
        /\ cop' = "decode_Content"
        /\ Converted([json |-> p.json, tag |-> p.tag, of |-> c],
                  DeContent(p.json))

decode_Annotation ==
    \E a \in AnnotationValues : \E p \in Retagged(SerAnnotation(a)) :
        /\ cop = "none"
        /\ cop' = "decode_Annotation"
        /\ Converted([json |-> p.json, tag |-> p.tag, of |-> a],
                  DeAnnotation(p.json))

\* an encoded record with some of its optional-looking keys left out
decode_Thread ==
    \E t \in ThreadValues : \E ks \in SUBSET {"metadata", "object"} :
        /\ cop = "none"
        /\ cop' = "decode_Thread"
        /\ Converted([json |-> Omit(SerThread(t), ks), omitted |-> ks, of |-> t],
                  DeThread(Omit(SerThread(t), ks)))

decode_Message ==
    \E m \in MessageValues : \E ks \in SUBSET {"metadata", "file_ids", "role"} :
        /\ cop = "none"
        /\ cop' = "decode_Message"
        /\ Converted([json |-> Omit(SerMessage(m), ks), omitted |-> ks, of |-> m],
                  DeMessage(Omit(SerMessage(m), ks)))

decode_MessageObject ==
    \E m \in MessageObjectValues :
        \E ks \in SUBSET {"metadata", "file_ids", "incomplete_details"} :
            /\ cop = "none"
            /\ cop' = "decode_MessageObject"
            /\ Converted(
                      [json |-> Omit(SerMessageObject(m), ks), omitted |-> ks, of |-> m],
                      DeMessageObject(Omit(SerMessageObject(m), ks)))

CodecNext ==
    \/ roundtrip_Message
    \/ roundtrip_MessageObject
    \/ roundtrip_Thread
    \/ roundtrip_Content
    \/ roundtrip_Annotation
    \/ encode_Role
    \/ decode_Role
    \/ decode_Content
    \/ decode_Annotation
    \/ decode_Thread
    \/ decode_Message
    \/ decode_MessageObject

SpecCodec == Init /\ [][CodecNext]_vars

---------------------------------------------------------------------------
(* Properties *)

Sent(op) == pc = "sent" /\ call.op = op
Done(op) == pc = "done" /\ call.op = op
Body == req.body.val
BodyMessages == Body.v["messages"].v

RoleLiterals == {"owner", "assistant"}

\* C1: every Role written into an outgoing body is the string "owner" or
\* "assistant": the role of each Message in the messages list of create, and
\* the role field of create_message.
C1_RoleLiteralInBodies ==
    /\ Sent("create") =>
          \A i \in 1..Len(BodyMessages) : BodyMessages[i].v["role"].v \in RoleLiterals
    /\ Sent("create_message") => Body.v["role"].v \in RoleLiterals

\* C2: each operation issues its request with the method and the path of the
\* interface table, and its body carries exactly the listed keys (no body for
\* fetch and delete), for every id and argument.
C2_MethodPathBody ==
    /\ Sent("create") =>
          /\ req.method = "POST" /\ req.path = "threads"
          /\ req.body.some /\ Keys(Body) = {"messages", "metadata"}
    /\ Sent("from") =>
          /\ req.method = "GET" /\ req.path = "threads/" \o call.id
          /\ ~req.body.some
    /\ Sent("update") =>
          /\ req.method = "POST" /\ req.path = "threads/" \o call.id
          /\ req.body.some /\ Keys(Body) = {"metadata"}
    /\ Sent("delete") =>
          /\ req.method = "DELETE" /\ req.path = "threads/" \o call.id
          /\ ~req.body.some
    /\ Sent("create_message") =>
          /\ req.method = "POST" /\ req.path = "threads/" \o call.id \o "/messages"
          /\ req.body.some /\ Keys(Body) = {"role", "content", "file_ids", "metadata"}

C2_Witness ==
    /\ Sent("create_message")
    /\ ~call.file_ids.some /\ ~call.metadata.some
    /\ req.path = "threads/thread_1/messages"

\* C3: create_message(id, Owner, "hello", ..) on an existing thread, answered by
\* a service that echoes the role string and the thread id it received,
\* returns a MessageObject with thread_id = id and role = Owner.
C3_AppendMessageReturnsOwner ==
    (/\ Done("create_message")
     /\ call.role = Owner /\ call.content = "hello"
     /\ resp.kind = "http" /\ resp.status = 200
     /\ resp.body.v["role"] = JStr(as_str(call.role))
     /\ resp.body.v["thread_id"] = JStr(call.id))
    => (result.ok /\ result.val.thread_id = call.id /\ result.val.role = Owner)

\* C4 as stated: an absent file_ids (None) is left out of the outgoing JSON, in
\* the body of create_message and in every Message of create.
C4_AbsentFileIdsOmitted ==
    /\ (Sent("create_message") /\ ~call.file_ids.some) => "file_ids" \notin Keys(Body)
    /\ Sent("create") =>
          \A i \in 1..Len(call.messages) :
              ~call.messages[i].file_ids.some => "file_ids" \notin Keys(BodyMessages[i])

\* C4 as amended: an absent file_ids (None) is written under the key file_ids
\* as null, in the body of create_message and in every Message of create.
C4_AbsentFileIdsNull ==
    /\ (Sent("create_message") /\ ~call.file_ids.some) =>
          ("file_ids" \in Keys(Body) /\ Body.v["file_ids"] = JNull)
    /\ Sent("create") =>
          \A i \in 1..Len(call.messages) :
              ~call.messages[i].file_ids.some =>
                  ("file_ids" \in Keys(BodyMessages[i]) /\ BodyMessages[i].v["file_ids"] = JNull)

C4_Witness ==
    /\ Sent("create_message")
    /\ ~call.file_ids.some
    /\ call.id \in Alive

\* C5: decoding a Thread, Message or MessageObject whose JSON leaves out
\* metadata (and nothing else) yields an empty metadata mapping, never an error.
C5_AbsentMetadataIsEmpty ==
    (/\ cop \in {"decode_Thread", "decode_Message", "decode_MessageObject"}
     /\ cin.omitted = {"metadata"})
    => (cout.ok /\ cout.val.metadata = EmptyMap)

\* C6: a successful fetch returns a Thread with the id that was requested; a
\* Thread returned by create carries the non-empty id the service assigned,
\* as it stands in the response; a fetch with that id, answered by the
\* service, succeeds with the same id; create sends no id of its own.
C6_CreateThenFetch ==
    /\ (Done("from") /\ result.ok) => result.val.id = call.id
    /\ (Done("create") /\ result.ok) =>
          /\ result.val.id # ""
          /\ JStr(result.val.id) = resp.body.v["id"]
          /\ result.val.id \in DOMAIN threads
    /\ (Done("from") /\ call.of_create /\ resp.kind = "http") =>
          (result.ok /\ result.val.id = call.id)
    /\ Sent("create") => "id" \notin Keys(Body)

C6_Witness ==
    /\ Done("from")
    /\ call.of_create
    /\ call.created_with.messages =
          <<[role |-> Owner, content |-> "hi", file_ids |-> None, metadata |-> EmptyMap]>>
    /\ call.created_with.metadata = EmptyMap
    /\ result.ok
    /\ result.val.id = call.id
    /\ call.id \in Alive

\* C7: a call issues exactly one HTTP request; once it has returned nothing is
\* in flight; what it returns is the helper's outcome for the one response: a
\* decoded value, or an ApiError, SchemaError or TransportError.
C7_SingleExchange ==
    /\ pc \in {"sent", "received", "done"} => nreq = 1
    /\ pc = "sent" => req # NoReq
    /\ pc \in {"idle", "done"} => req = NoReq
    /\ pc = "done" =>
          /\ result = Outcome(call.op, resp)
          /\ result.ok \/ result.err \in {"ApiError", "SchemaError", "TransportError"}

C7_Witness ==
    /\ pc = "done"
    /\ ~result.ok
    /\ result.err = "SchemaError"
    /\ nreq = 1
    /\ req = NoReq

\* C8: the body of update holds the key metadata and no key messages; when the
\* service handles an update, the message history of every thread stays as it
\* was, and no thread other than the one addressed changes.
C8_UpdateKeepsHistory ==
    /\ [](Sent("update") => ("metadata" \in Keys(Body) /\ "messages" \notin Keys(Body)))
    /\ [][(Sent("update") /\ pc' = "received") =>
            /\ DOMAIN threads' = DOMAIN threads
            /\ \A id \in DOMAIN threads :
                  /\ threads'[id].history = threads[id].history
                  /\ id # call.id => threads'[id] = threads[id]]_vars

C8_Witness ==
    /\ Done("update")
    /\ result.ok
    /\ call.id \in Alive
    /\ threads[call.id].history # << >>
    /\ threads[call.id].metadata = SerMapString(call.metadata)
    /\ \E other \in Alive : other # call.id /\ threads[other].metadata # threads[call.id].metadata

\* C9: a Content payload decodes to the text variant exactly when its type is
\* "text" and to the image-file variant exactly when its type is "image_file";
\* an Annotation decodes to file-citation for "file_citation" and to file-path
\* for "file_path"; any other or missing type is a schema error.
C9_DiscriminatorDispatch ==
    /\ cop = "decode_Content" =>
          /\ (cin.tag = Some("text") /\ cin.of.variant = "Content::Text") => cout = Ok(cin.of)
          /\ (cin.tag = Some("image_file") /\ cin.of.variant = "Content::ImageFile") =>
                cout = Ok(cin.of)
          /\ cout.ok =>
                /\ cout.val.variant = "Content::Text" <=> cin.tag = Some("text")
                /\ cout.val.variant = "Content::ImageFile" <=> cin.tag = Some("image_file")
          /\ cin.tag \notin {Some("text"), Some("image_file")} => cout = SchemaError
    /\ cop = "decode_Annotation" =>
          /\ (cin.tag = Some("file_citation") /\ cin.of.variant = "Annotation::FileCitation") =>
                cout = Ok(cin.of)
          /\ (cin.tag = Some("file_path") /\ cin.of.variant = "Annotation::FilePath") =>
                cout = Ok(cin.of)
          /\ cout.ok =>
                /\ cout.val.variant = "Annotation::FileCitation" <=> cin.tag = Some("file_citation")
                /\ cout.val.variant = "Annotation::FilePath" <=> cin.tag = Some("file_path")
          /\ cin.tag \notin {Some("file_citation"), Some("file_path")} => cout = SchemaError

C9_Witness ==
    /\ cop = "decode_Content"
    /\ cin.tag = Some("audio")
    /\ cin.of.variant = "Content::Text"
    /\ cout = SchemaError

\* C10: encoding a Message, MessageObject, Thread, Content or Annotation and
\* decoding the JSON again yields the value that was encoded.
C10_RoundTrip ==
    cop \in {"roundtrip_Message", "roundtrip_MessageObject", "roundtrip_Thread",
             "roundtrip_Content", "roundtrip_Annotation"}
    => cout = Ok(cin)

C10_Witness ==
    /\ cop = "roundtrip_MessageObject"
    /\ ~cin.file_ids.some
    /\ ~cin.incomplete_details.some
    /\ cin.metadata = EmptyMap
    /\ cout.ok
    /\ cout.val.role = cin.role

====
